---- MODULE Spec2Model ----
(***************************************************************************)
(* The two tool handlers of server.py, search and image_search, as a state *)
(* machine.  A call slot is a tool invocation handed over by the host: the *)
(* handler runs up to the remote request (search_call, image_search_call), *)
(* the remote service answers, and the handler turns the answer into its   *)
(* return value (search_return, image_search_return).  Python mappings are *)
(* functions over a set of string keys, Optional values are None or        *)
(* Some(v), and every returned text is a string built as the code builds   *)
(* it.                                                                     *)
(***************************************************************************)
EXTENDS Integers, Sequences, FiniteSets, TLC

VARIABLES pc, tool, args, request, nreq, outcome, result, search_default

vars == <<pc, tool, args, request, nreq, outcome, result, search_default>>

(* ------------------------------ bounds -------------------------------- *)

\* call slots the host may have open at the same time
NCalls == 2
\* longest organic_results sequence of a response
MaxOrganic == 2
\* longest images_results sequence of a response
MaxImages == 11
\* longest related_searches sequence of a response
MaxRelated == 7

Calls == 1..NCalls

(* --------------------------- Python values ---------------------------- *)

None == <<>>

Some(v) == <<v>>

IsNone(o) == Len(o) = 0

Val(o) == o[1]

\* the empty mapping {}
EmptyDict == [k \in {} |-> ""]

\* d.get(k, default)
Get(d, k, default) == IF k \in DOMAIN d THEN d[k] ELSE default

\* {**base, **over}, and base.update(over): the entries of over win
Merge(base, over) ==
  [k \in (DOMAIN base) \cup (DOMAIN over) |->
     IF k \in DOMAIN over THEN over[k] ELSE base[k]]

Min(a, b) == IF a <= b THEN a ELSE b

Max(a, b) == IF a >= b THEN a ELSE b

\* seq[:k]: the first k entries, or all but the last -k when k is negative
SliceTo(seq, k) ==
  IF k >= 0 THEN SubSeq(seq, 1, Min(k, Len(seq)))
  ELSE SubSeq(seq, 1, Max(Len(seq) + k, 0))

Digit(d) ==
  CASE d = 0 -> "0" [] d = 1 -> "1" [] d = 2 -> "2" [] d = 3 -> "3"
    [] d = 4 -> "4" [] d = 5 -> "5" [] d = 6 -> "6" [] d = 7 -> "7"
    [] d = 8 -> "8" [] d = 9 -> "9"

RECURSIVE NatToStr(_)
NatToStr(n) == IF n < 10 THEN Digit(n) ELSE NatToStr(n \div 10) \o Digit(n % 10)

\* str(n) of an int, as an f-string renders it
IntToStr(n) == IF n < 0 THEN "-" \o NatToStr(0 - n) ELSE NatToStr(n)

\* sep.join(parts)
RECURSIVE Join(_, _)
Join(sep, parts) ==
  IF Len(parts) = 0 THEN ""
  ELSE IF Len(parts) = 1 THEN parts[1]
  ELSE parts[1] \o sep \o Join(sep, Tail(parts))

(* --------------------------- configuration ---------------------------- *)

\* the key read from the environment at start-up
API_KEY == "SECRET"

(* ------------------------------ search -------------------------------- *)

\* the new mapping bound to the local name params
SearchRequest(params) ==
  Merge([api_key |-> API_KEY, engine |-> "google_light"], params)

\* as if the handler wrote its defaults into the mapping it was handed
ArgObjectUpdatedInPlace(obj, merged) == merged

\* The mapping object the handler was handed (the caller's, or the shared
\* default of search), once the request is built: the request is a new
\* mapping and the object handed in is left as it was.
ArgObjectAfterCall(obj, merged) == obj

OrganicBlock(r) ==
  "Title: " \o Get(r, "title", "No title") \o "\nLink: "
    \o Get(r, "link", "No link") \o "\nSnippet: "
    \o Get(r, "snippet", "No snippet") \o "\n"

OrganicBlocks(rs) == [i \in 1..Len(rs) |-> OrganicBlock(rs[i])]

\* as if the blocks were joined with nothing between them
SearchFormatNoSeparator(data) ==
  IF "organic_results" \in DOMAIN data /\ Len(data["organic_results"]) > 0
  THEN Join("", OrganicBlocks(data["organic_results"]))
  ELSE "No organic results found"

SearchFormat(data) ==
  IF "organic_results" \in DOMAIN data
  THEN LET formatted_results == OrganicBlocks(Get(data, "organic_results", <<>>))
       IN  IF Len(formatted_results) > 0
           THEN Join("\n", formatted_results)
           ELSE "No organic results found"
  ELSE "No organic results found"

\* as if the 401 branch were missing
HttpErrorTextNo401(status, text) ==
  IF status = 429 THEN "Error: Rate limit exceeded. Please try again later."
  ELSE "Error: " \o IntToStr(status) \o " - " \o text

HttpErrorText(status, text) ==
  IF status = 429 THEN "Error: Rate limit exceeded. Please try again later."
  ELSE IF status = 401
  THEN "Error: Invalid API key. Please check your SERPAPI_API_KEY."
  ELSE "Error: " \o IntToStr(status) \o " - " \o text

ExceptionText(msg) == "Error: " \o msg

\* the value a handler returns, or the error it lets escape
Returned(s) == [kind |-> "return", value |-> s]

Raised(e) == [kind |-> "raise", value |-> e]

NoResult == [kind |-> "none", value |-> ""]

NoOutcome == [kind |-> "none"]

SearchResult(o) ==
  CASE o.kind = "data" -> Returned(SearchFormat(o.data))
    [] o.kind = "http" -> Returned(HttpErrorText(o.status, o.text))
    [] o.kind = "exc" -> Returned(ExceptionText(o.msg))

(* --------------------------- image_search ----------------------------- *)

\* the most results one call asks for and formats
CountLimit == 10

\* results per page of the remote image engine
PageSize == 10

\* related queries listed at most
RelatedLimit == 5

\* as if the count were passed on as given
ClampCountOff(count) == count

ClampCount(count) == IF count > CountLimit THEN CountLimit ELSE count

\* as if the 1-based start were divided as it is
PageIndexOneBased(start) == start \div PageSize

PageIndex(start) == (start - 1) \div PageSize

\* search_params before the caller's params are laid over it
ImageBaseRequest(query, count, start) ==
  [api_key |-> API_KEY, engine |-> "google_images", q |-> query,
   ijn |-> PageIndex(start), num |-> count]

\* "if params:" is false for None and for the empty mapping
Truthy(params) == ~IsNone(params) /\ DOMAIN Val(params) # {}

ImageRequest(query, count, start, params) ==
  IF Truthy(params)
  THEN Merge(ImageBaseRequest(query, count, start), Val(params))
  ELSE ImageBaseRequest(query, count, start)

ImageBlock(i, image) ==
  "[" \o IntToStr(i) \o "] Title: " \o Get(image, "title", "No title")
    \o "\nSource: " \o Get(image, "source", "Unknown")
    \o "\nImage URL: " \o Get(image, "original", "")
    \o "\nThumbnail: " \o Get(image, "thumbnail", "") \o "\n"

\* as if every entry of image_results were shown
ImageBlocksUnsliced(image_results, count) ==
  [i \in 1..Len(image_results) |-> ImageBlock(i, image_results[i])]

\* one block per entry of image_results[:count], numbered from 1
ImageBlocks(image_results, count) ==
  LET shown == SliceTo(image_results, count)
  IN  [i \in 1..Len(shown) |-> ImageBlock(i, shown[i])]

RelatedQueries(related) ==
  LET shown == SliceTo(related, RelatedLimit)
  IN  [i \in 1..Len(shown) |-> Get(shown[i], "query", "")]

RelatedBlock(data) ==
  IF "related_searches" \in DOMAIN data /\ Len(data["related_searches"]) > 0
  THEN <<"\nRelated Searches: "
           \o Join(", ", RelatedQueries(data["related_searches"]))>>
  ELSE <<>>

\* as if the error field were looked at only when there are no images
ImageFormatErrorLast(data, count) ==
  LET image_results == Get(data, "images_results", <<>>)
  IN  IF Len(image_results) = 0
      THEN IF "error" \in DOMAIN data THEN "Error: " \o data["error"]
           ELSE "No image results found for your query."
      ELSE Join("\n\n",
                ImageBlocks(image_results, count) \o RelatedBlock(data))

\* count is the clamped count
ImageFormat(data, count) ==
  IF "error" \in DOMAIN data THEN "Error: " \o data["error"]
  ELSE LET image_results == Get(data, "images_results", <<>>)
       IN  IF Len(image_results) = 0
           THEN "No image results found for your query."
           ELSE Join("\n\n",
                     ImageBlocks(image_results, count) \o RelatedBlock(data))

ImageResult(o, count) ==
  CASE o.kind = "data" -> Returned(ImageFormat(o.data, count))
    [] o.kind = "http" -> Returned(HttpErrorText(o.status, o.text))
    [] o.kind = "exc" -> Returned(ExceptionText(o.msg))

(* ------------------- arguments and remote answers --------------------- *)

NoArgs == [query |-> "", count |-> None, start |-> None, params |-> None]

\* search(params): None is the argument left out, the shared default {}
SearchParams ==
  {None, Some(EmptyDict), Some([q |-> "tea"]),
   Some([q |-> "tea", engine |-> "google"]),
   Some([q |-> "tea", api_key |-> "EVIL"])}

SearchArgs == {[NoArgs EXCEPT !.params = p] : p \in SearchParams}

SearchArgsFew == {[NoArgs EXCEPT !.params = p] : p \in {None, Some([q |-> "tea"])}}

Counts == {None} \cup {Some(n) : n \in {-1, 0, 1, 3, 10, 11, 12}}

Starts == {None} \cup {Some(n) : n \in {1, 10, 11, 25}}

ImageParams ==
  {None, Some(EmptyDict), Some([num |-> 50]), Some([ijn |-> 7]),
   Some([api_key |-> "EVIL"])}

ImageArgs ==
  {[query |-> "cat", count |-> c, start |-> s, params |-> p] :
     c \in Counts, s \in Starts, p \in ImageParams}

ImageArgsFew ==
  {[query |-> "cat", count |-> Some(5), start |-> Some(1), params |-> None],
   [query |-> "cat", count |-> Some(11), start |-> Some(11),
    params |-> Some([hl |-> "en"])]}

OrganicEntries ==
  {[title |-> "Tea", link |-> "http://t", snippet |-> "leaf"],
   [link |-> "http://b"],
   EmptyDict,
   [title |-> "No organic results found", link |-> "http://n", snippet |-> "s"]}

OrganicLists == UNION {[1..n -> OrganicEntries] : n \in 0..MaxOrganic}

HttpFailures ==
  {[kind |-> "http", status |-> s, text |-> t] :
     s \in {401, 429, 500}, t \in {"", "oops"}}

OtherFailures == {[kind |-> "exc", msg |-> "timed out"]}

DataOutcome(d) == [kind |-> "data", data |-> d]

SearchData ==
  {EmptyDict, [error |-> "Invalid"]}
    \cup {[organic_results |-> rs] : rs \in OrganicLists}

SearchOutcomes ==
  {DataOutcome(d) : d \in SearchData} \cup HttpFailures \cup OtherFailures

SearchOutcomesFew ==
  {DataOutcome(EmptyDict),
   DataOutcome([organic_results |-> <<[title |-> "Tea"]>>]),
   [kind |-> "http", status |-> 429, text |-> ""]}

ImageEntry(i, sparse) ==
  IF sparse /\ i % 2 = 1 THEN EmptyDict
  ELSE [title |-> "i" \o IntToStr(i), original |-> "o" \o IntToStr(i),
        thumbnail |-> "t" \o IntToStr(i), source |-> "s" \o IntToStr(i)]

ImageList(n, sparse) == [i \in 1..n |-> ImageEntry(i, sparse)]

ImageLists == {ImageList(n, sp) : n \in 0..MaxImages, sp \in BOOLEAN}

\* the second suggestion carries no query
RelatedList(n) ==
  [i \in 1..n |-> IF i = 2 THEN EmptyDict ELSE [query |-> "r" \o IntToStr(i)]]

RelatedLists == {RelatedList(n) : n \in {0, 2, MaxRelated}}

ImageData ==
  {EmptyDict}
    \cup {[images_results |-> im] : im \in ImageLists}
    \cup {[related_searches |-> rl] : rl \in RelatedLists}
    \cup {[images_results |-> im, related_searches |-> rl] :
            im \in ImageLists, rl \in RelatedLists}
    \cup {[error |-> "quota exceeded"],
          [error |-> "quota exceeded", images_results |-> ImageList(3, FALSE)],
          [error |-> "quota exceeded", images_results |-> ImageList(3, FALSE),
           related_searches |-> RelatedList(2)]}

ImageOutcomes ==
  {DataOutcome(d) : d \in ImageData} \cup HttpFailures \cup OtherFailures

ImageOutcomesFew ==
  {DataOutcome(EmptyDict),
   DataOutcome([images_results |-> ImageList(2, FALSE)]),
   [kind |-> "http", status |-> 401, text |-> ""]}

(* ------------------------------ actions ------------------------------- *)

Init ==
  /\ pc = [c \in Calls |-> "idle"]
  /\ tool = [c \in Calls |-> "none"]
  /\ args = [c \in Calls |-> NoArgs]
  /\ request = [c \in Calls |-> EmptyDict]
  /\ nreq = [c \in Calls |-> 0]
  /\ outcome = [c \in Calls |-> NoOutcome]
  /\ result = [c \in Calls |-> NoResult]
  /\ search_default = EmptyDict

\* the host dispatches a tool call with arguments its schema admits
Invoke(c, SA, IA) ==
  /\ pc[c] = "idle"
  /\ \E t \in {"search", "image_search"} :
       \E a \in (IF t = "search" THEN SA ELSE IA) :
         /\ tool' = [tool EXCEPT ![c] = t]
         /\ args' = [args EXCEPT ![c] = a]
  /\ pc' = [pc EXCEPT ![c] = "invoked"]
  /\ request' = [request EXCEPT ![c] = EmptyDict]
  /\ nreq' = [nreq EXCEPT ![c] = 0]
  /\ outcome' = [outcome EXCEPT ![c] = NoOutcome]
  /\ result' = [result EXCEPT ![c] = NoResult]
  /\ UNCHANGED search_default

\* search up to the remote request: the merge, then SerpApiSearch(params)
search_call(c) ==
  /\ pc[c] = "invoked"
  /\ tool[c] = "search"
  /\ LET omitted == IsNone(args[c].params)
         obj == IF omitted THEN search_default ELSE Val(args[c].params)
         params == SearchRequest(obj)
     IN  /\ request' = [request EXCEPT ![c] = params]
         /\ search_default' =
              IF omitted THEN ArgObjectAfterCall(obj, params) ELSE search_default
         /\ args' =
              IF omitted THEN args
              ELSE [args EXCEPT ![c].params = Some(ArgObjectAfterCall(obj, params))]
  /\ nreq' = [nreq EXCEPT ![c] = @ + 1]
  /\ pc' = [pc EXCEPT ![c] = "waiting"]
  /\ UNCHANGED <<tool, outcome, result>>

\* search from the remote answer to its return value
search_return(c, SO) ==
  /\ pc[c] = "waiting"
  /\ tool[c] = "search"
  /\ \E o \in SO :
       /\ outcome' = [outcome EXCEPT ![c] = o]
       /\ result' = [result EXCEPT ![c] = SearchResult(o)]
  /\ pc' = [pc EXCEPT ![c] = "done"]
  /\ UNCHANGED <<tool, args, request, nreq, search_default>>

\* image_search up to the remote request; comparing or subtracting with None
\* is a TypeError, raised before the try block is entered
image_search_call(c) ==
  /\ pc[c] = "invoked"
  /\ tool[c] = "image_search"
  /\ LET a == args[c]
     IN  IF IsNone(a.count) \/ IsNone(a.start)
         THEN /\ result' = [result EXCEPT ![c] = Raised("TypeError")]
              /\ pc' = [pc EXCEPT ![c] = "done"]
              /\ UNCHANGED <<request, nreq, args>>
         ELSE LET count == ClampCount(Val(a.count))
                  search_params ==
                    ImageRequest(a.query, count, Val(a.start), a.params)
              IN  /\ request' = [request EXCEPT ![c] = search_params]
                  /\ args' =
                       IF Truthy(a.params)
                       THEN [args EXCEPT ![c].params =
                               Some(ArgObjectAfterCall(Val(a.params), search_params))]
                       ELSE args
                  /\ nreq' = [nreq EXCEPT ![c] = @ + 1]
                  /\ pc' = [pc EXCEPT ![c] = "waiting"]
                  /\ UNCHANGED result
  /\ UNCHANGED <<tool, outcome, search_default>>

\* image_search from the remote answer to its return value
image_search_return(c, IO) ==
  /\ pc[c] = "waiting"
  /\ tool[c] = "image_search"
  /\ \E o \in IO :
       /\ outcome' = [outcome EXCEPT ![c] = o]
       /\ result' =
            [result EXCEPT ![c] = ImageResult(o, ClampCount(Val(args[c].count)))]
  /\ pc' = [pc EXCEPT ![c] = "done"]
  /\ UNCHANGED <<tool, args, request, nreq, search_default>>

\* the host takes the outcome of the call and the slot is free again
Release(c) ==
  /\ pc[c] = "done"
  /\ pc' = [pc EXCEPT ![c] = "idle"]
  /\ tool' = [tool EXCEPT ![c] = "none"]
  /\ args' = [args EXCEPT ![c] = NoArgs]
  /\ request' = [request EXCEPT ![c] = EmptyDict]
  /\ nreq' = [nreq EXCEPT ![c] = 0]
  /\ outcome' = [outcome EXCEPT ![c] = NoOutcome]
  /\ result' = [result EXCEPT ![c] = NoResult]
  /\ UNCHANGED search_default

\* one call at a time, over the whole range of arguments and answers
Next ==
  \/ Invoke(1, SearchArgs, ImageArgs)
  \/ search_call(1)
  \/ search_return(1, SearchOutcomes)
  \/ image_search_call(1)
  \/ image_search_return(1, ImageOutcomes)
  \/ Release(1)

Spec == Init /\ [][Next]_vars

\* every slot open at once, the calls interleaved in any order
NextConc ==
  \E c \in Calls :
    \/ Invoke(c, SearchArgsFew, ImageArgsFew)
    \/ search_call(c)
    \/ search_return(c, SearchOutcomesFew)
    \/ image_search_call(c)
    \/ image_search_return(c, ImageOutcomesFew)
    \/ Release(c)

SpecConc == Init /\ [][NextConc]_vars

(* ------------------------- claims: helpers ---------------------------- *)

Done(c) == pc[c] = "done"

Sent(c) == pc[c] \in {"waiting", "done"} /\ nreq[c] > 0

Succeeded(c, t) == Done(c) /\ tool[c] = t /\ outcome[c].kind = "data"

\* t occurs in s
Contains(s, t) ==
  \E i \in 1..(Len(s) - Len(t) + 1) : SubSeq(s, i, i + Len(t) - 1) = t

\* how many times t occurs in s
Occurrences(s, t) ==
  Cardinality({i \in 1..(Len(s) - Len(t) + 1) : SubSeq(s, i, i + Len(t) - 1) = t})

EndsWith(s, t) ==
  Len(s) >= Len(t) /\ SubSeq(s, Len(s) - Len(t) + 1, Len(s)) = t

Field(entry, k, missing) == IF k \in DOMAIN entry THEN entry[k] ELSE missing

(* ------------------------------- C1 ----------------------------------- *)

\* C1: every invocation of search or image_search, whatever its arguments
\* and whatever the remote outcome, completes by returning a string; no
\* error escapes to the host.
C1_AlwaysReturnsString ==
  \A c \in Calls : Done(c) => result[c].kind = "return"

(* ------------------------------- C2 ----------------------------------- *)

\* C2: in every request sent to the remote API the api_key entry is the
\* configured key, whatever the caller's params mapping holds.
C2_ApiKeyNotOverridable ==
  \A c \in Calls : Sent(c) => request[c]["api_key"] = API_KEY

(* ------------------------------- C3 ----------------------------------- *)

\* C3: after an HTTP-status failure both tools return the fixed text for
\* 429, the fixed text for 401 and "Error: <status> - <body>" for any other
\* status; any other failure of the call gives "Error: <description>".
C3_FailureStrings ==
  \A c \in Calls :
    Done(c) /\ outcome[c].kind \in {"http", "exc"} =>
      LET o == outcome[c]
          s == result[c].value
      IN  /\ result[c].kind = "return"
          /\ o.kind = "http" /\ o.status = 429 =>
                s = "Error: Rate limit exceeded. Please try again later."
          /\ o.kind = "http" /\ o.status = 401 =>
                s = "Error: Invalid API key. Please check your SERPAPI_API_KEY."
          /\ o.kind = "http" /\ o.status \notin {429, 401} =>
                s = "Error: " \o IntToStr(o.status) \o " - " \o o.text
          /\ o.kind = "http" /\ o.status = 500 /\ o.text = "oops" =>
                s = "Error: 500 - oops"
          /\ o.kind = "exc" => s = "Error: " \o o.msg

C3_Witness ==
  \E c \in Calls :
    /\ Done(c)
    /\ tool[c] = "image_search"
    /\ outcome[c].kind = "http"
    /\ outcome[c].status = 500
    /\ result[c].value = "Error: 500 - oops"

(* ------------------------------- C4 ----------------------------------- *)

\* the num entry the claim expects for a count
ExpectedNum(count) == IF count > 10 THEN 10 ELSE count

\* C4 as stated: for every image_search invocation the num entry of the
\* request sent is 10 when count > 10 and count otherwise.
C4_NumIsClampedCount ==
  \A c \in Calls :
    Sent(c) /\ tool[c] = "image_search" =>
      request[c]["num"] = ExpectedNum(Val(args[c].count))

\* C4 amended: for every image_search invocation whose params has no num
\* entry, the num entry of the request sent is 10 when count > 10 and
\* count otherwise (no lower clamp).
C4_NumIsClampedCountUnlessGiven ==
  \A c \in Calls :
    /\ Sent(c)
    /\ tool[c] = "image_search"
    /\ IsNone(args[c].params) \/ "num" \notin DOMAIN Val(args[c].params)
    => request[c]["num"] = ExpectedNum(Val(args[c].count))

C4_Witness ==
  \E c \in Calls :
    /\ Sent(c)
    /\ tool[c] = "image_search"
    /\ args[c].count = Some(12)
    /\ args[c].params = Some([ijn |-> 7])
    /\ request[c]["num"] = 10

(* ------------------------------- C5 ----------------------------------- *)

\* C5 as stated: for every image_search invocation with start >= 1 the ijn
\* entry of the request sent is (start - 1) floor-divided by 10, a
\* non-negative zero-based page index.
C5_IjnIsPageIndex ==
  \A c \in Calls :
    Sent(c) /\ tool[c] = "image_search" /\ Val(args[c].start) >= 1 =>
      LET start == Val(args[c].start)
          ijn == request[c]["ijn"]
      IN  /\ ijn = (start - 1) \div 10
          /\ ijn >= 0
          /\ start = 1 => ijn = 0
          /\ start = 11 => ijn = 1
          /\ start = 25 => ijn = 2

\* C5 amended: for every image_search invocation with start >= 1 whose
\* params has no ijn entry, the ijn entry of the request sent is
\* (start - 1) floor-divided by 10, a non-negative zero-based page index.
C5_IjnIsPageIndexUnlessGiven ==
  \A c \in Calls :
    /\ Sent(c)
    /\ tool[c] = "image_search"
    /\ Val(args[c].start) >= 1
    /\ IsNone(args[c].params) \/ "ijn" \notin DOMAIN Val(args[c].params)
    => LET start == Val(args[c].start)
           ijn == request[c]["ijn"]
       IN  /\ ijn = (start - 1) \div 10
           /\ ijn >= 0
           /\ start = 1 => ijn = 0
           /\ start = 11 => ijn = 1
           /\ start = 25 => ijn = 2

C5_Witness ==
  \E c \in Calls :
    /\ Sent(c)
    /\ tool[c] = "image_search"
    /\ args[c].start = Some(25)
    /\ args[c].params = Some([num |-> 50])
    /\ request[c]["ijn"] = 2

(* ------------------------------- C6 ----------------------------------- *)

NoOrganic == "No organic results found"

\* the three lines the claim gives one organic_results entry
ExpectedOrganicBlock(e) ==
  "Title: " \o Field(e, "title", "No title") \o "\n"
    \o "Link: " \o Field(e, "link", "No link") \o "\n"
    \o "Snippet: " \o Field(e, "snippet", "No snippet") \o "\n"

\* the blocks of rs in order, an empty line between consecutive blocks
RECURSIVE ExpectedOrganicText(_)
ExpectedOrganicText(rs) ==
  IF Len(rs) = 1 THEN ExpectedOrganicBlock(rs[1])
  ELSE ExpectedOrganicText(SubSeq(rs, 1, Len(rs) - 1))
         \o "\n" \o ExpectedOrganicBlock(rs[Len(rs)])

NoOrganicResults(data) ==
  "organic_results" \notin DOMAIN data \/ Len(data["organic_results"]) = 0

\* the part of C6 that holds as stated, for the search call in slot c
OrganicTextAsClaimed(c) ==
  LET data == outcome[c].data
      s == result[c].value
  IN  /\ result[c].kind = "return"
      /\ (s = NoOrganic) <=> NoOrganicResults(data)
      /\ ~NoOrganicResults(data) =>
            /\ s = ExpectedOrganicText(data["organic_results"])
            /\ Occurrences(s, "Title: ") = Len(data["organic_results"])

\* C6 as stated: after a successful remote call search returns exactly
\* "No organic results found" iff the response has no organic_results key or
\* an empty one; otherwise one Title/Link/Snippet block per entry, in order,
\* missing fields replaced, an empty line between blocks, and the text
\* "No organic results found" nowhere in the result.
C6_OrganicText ==
  \A c \in Calls :
    Succeeded(c, "search") =>
      /\ OrganicTextAsClaimed(c)
      /\ ~NoOrganicResults(outcome[c].data) =>
            ~Contains(result[c].value, NoOrganic)

\* C6 amended: after a successful remote call search returns exactly
\* "No organic results found" iff the response has no organic_results key or
\* an empty one; otherwise one Title/Link/Snippet block per entry, in order,
\* missing fields replaced, an empty line between blocks; that result never
\* ends with "No organic results found" and contains the text only where a
\* title, link or snippet of the response contains it.
C6_OrganicTextFieldsAside ==
  \A c \in Calls :
    Succeeded(c, "search") =>
      /\ OrganicTextAsClaimed(c)
      /\ ~NoOrganicResults(outcome[c].data) =>
            LET rs == outcome[c].data["organic_results"]
            IN  /\ ~EndsWith(result[c].value, NoOrganic)
                /\ Contains(result[c].value, NoOrganic) =>
                      \E i \in 1..Len(rs) :
                        \E k \in DOMAIN rs[i] : Contains(rs[i][k], NoOrganic)

C6_Witness ==
  \E c \in Calls :
    /\ Succeeded(c, "search")
    /\ "organic_results" \in DOMAIN outcome[c].data
    /\ Len(outcome[c].data["organic_results"]) = 2
    /\ outcome[c].data["organic_results"][2] = [link |-> "http://b"]
    /\ result[c].value =
         "Title: Tea\nLink: http://t\nSnippet: leaf\n\n"
           \o "Title: No title\nLink: http://b\nSnippet: No snippet\n"

(* ------------------------------- C7 ----------------------------------- *)

\* C7: when the remote call of image_search succeeds and the response has
\* a top-level error field, the result is exactly "Error: <error value>",
\* whatever images_results and related_searches the response holds: no
\* image block and no related-searches text is added to it.
C7_ErrorFieldFirst ==
  \A c \in Calls :
    Succeeded(c, "image_search") /\ "error" \in DOMAIN outcome[c].data =>
      /\ result[c] = Returned("Error: " \o outcome[c].data["error"])
      /\ Occurrences(result[c].value, "] Title: ") = 0
      /\ ~Contains(result[c].value, "Related Searches: ")

C7_Witness ==
  \E c \in Calls :
    /\ Succeeded(c, "image_search")
    /\ DOMAIN outcome[c].data = {"error", "images_results", "related_searches"}
    /\ Len(outcome[c].data["images_results"]) = 3
    /\ Len(outcome[c].data["related_searches"]) = 2
    /\ result[c].value = "Error: quota exceeded"

(* ------------------------------- C8 ----------------------------------- *)

\* C8: every invocation of search or image_search issues exactly one
\* request to the remote service over the whole life of the call, never
\* none and never more than one.
C8_ExactlyOneRequest ==
  \A c \in Calls : (Done(c) => nreq[c] = 1) /\ nreq[c] <= 1

(* ------------------------------- C10 ---------------------------------- *)

\* the four lines the claim gives the i-th image shown
ExpectedImageBlock(i, e) ==
  "[" \o IntToStr(i) \o "] Title: " \o Field(e, "title", "No title") \o "\n"
    \o "Source: " \o Field(e, "source", "Unknown") \o "\n"
    \o "Image URL: " \o Field(e, "original", "") \o "\n"
    \o "Thumbnail: " \o Field(e, "thumbnail", "") \o "\n"

\* the blocks of the first n entries, [1] to [n], each followed by the
\* separator of the joined result when another part follows it
RECURSIVE ExpectedImageText(_, _, _)
ExpectedImageText(images, n, more) ==
  IF n <= 0 THEN ""
  ELSE ExpectedImageText(images, n - 1, TRUE)
         \o ExpectedImageBlock(n, images[n])
         \o (IF more THEN "\n\n" ELSE "")

\* the text after the image blocks: the related searches, when there are any
RelatedTail(data) ==
  IF "related_searches" \in DOMAIN data /\ Len(data["related_searches"]) > 0
  THEN "\nRelated Searches: "
         \o Join(", ", [i \in 1..Min(5, Len(data["related_searches"])) |->
                          Field(data["related_searches"][i], "query", "")])
  ELSE ""

\* a successful image_search answer with no error field and some images
HasImages(c) ==
  /\ Succeeded(c, "image_search")
  /\ "error" \notin DOMAIN outcome[c].data
  /\ "images_results" \in DOMAIN outcome[c].data
  /\ Len(outcome[c].data["images_results"]) > 0

\* the result shows the first min(c, length) images, c the count capped at 10
ShowsFirstImages(c) ==
  LET data == outcome[c].data
      images == data["images_results"]
      count == Val(args[c].count)
      capped == Min(count, 10)
      n == Min(capped, Len(images))
      s == result[c].value
  IN  /\ result[c].kind = "return"
      /\ s = ExpectedImageText(images, n, RelatedTail(data) # "")
               \o RelatedTail(data)
      /\ Occurrences(s, "] Title: ") = n
      /\ Occurrences(s, "] Title: ") <= 10
      /\ Occurrences(s, "] Title: ") <= count

\* C10 as stated: for every integer count, a successful image_search answer
\* with no error field and a non-empty images_results gives blocks for
\* exactly the first min(c, length) entries, c the count capped at 10, in
\* order and numbered from [1]; never more than 10 and never more than count.
C10_FirstImages ==
  \A c \in Calls : HasImages(c) => ShowsFirstImages(c)

\* C10 amended: for every integer count >= 0, a successful image_search
\* answer with no error field and a non-empty images_results gives blocks
\* for exactly the first min(c, length) entries, c the count capped at 10,
\* in order and numbered from [1]; never more than 10 and never more than
\* count.
C10_FirstImagesNonNegative ==
  \A c \in Calls :
    HasImages(c) /\ Val(args[c].count) >= 0 => ShowsFirstImages(c)

C10_Witness ==
  \E c \in Calls :
    /\ HasImages(c)
    /\ args[c].count = Some(12)
    /\ Len(outcome[c].data["images_results"]) = 11
    /\ Occurrences(result[c].value, "] Title: ") = 10
    /\ Contains(result[c].value, "[10] Title: i10\n")

(* ------------------------------- C9 ----------------------------------- *)

\* the request of a call that runs alone, from its own arguments
RequestAlone(t, a) ==
  IF t = "search"
  THEN SearchRequest(IF IsNone(a.params) THEN EmptyDict ELSE Val(a.params))
  ELSE ImageRequest(a.query, ExpectedNum(Val(a.count)), Val(a.start), a.params)

\* the return value of a call that runs alone, from its own arguments and
\* its own remote answer
ResultAlone(t, a, o) ==
  IF t = "search" THEN SearchResult(o)
  ELSE ImageResult(o, ExpectedNum(Val(a.count)))

\* every open call has the request and the result it would have alone
Isolated ==
  \A c \in Calls :
    /\ Sent(c) => request[c] = RequestAlone(tool[c], args[c])
    /\ Done(c) /\ result[c].kind = "return" =>
         result[c] = ResultAlone(tool[c], args[c], outcome[c])

\* C9: under any interleaving of concurrent search and image_search calls
\* no step of a call changes the shared default params of search or the
\* arguments (the params mappings among them) of any open call, so every
\* call's request and result are those of the same call run alone.
C9_NoSharedStateModified ==
  [][/\ search_default' = search_default
     /\ \A c \in Calls : pc[c] # "idle" /\ pc'[c] # "idle" => args'[c] = args[c]
     /\ Isolated']_vars

C9_Witness ==
  /\ Done(1)
  /\ tool[1] = "search"
  /\ IsNone(args[1].params)
  /\ pc[2] = "waiting"
  /\ tool[2] = "search"
  /\ IsNone(args[2].params)
  /\ request[2] = [api_key |-> "SECRET", engine |-> "google_light"]

====
